---- MODULE Spec2Model ----
(***************************************************************************)
(* Model of the elevator dispatch core (src/elevator_model.py) together    *)
(* with the tables of the Event Sink it writes to (src/database.py).       *)
(*                                                                         *)
(* The Control Surface issues one call at a time.  A call is modelled at   *)
(* the granularity of the statements of ElevatorSystem.request_elevator,   *)
(* and Elevator.move is split at its time.sleep: the part before the sleep *)
(* (end of the resting period, direction, status notification) and the     *)
(* part after it (new floor, idle, status notification, new resting        *)
(* period).  Python's None is modelled as 0 for the two handles: row ids   *)
(* handed out by sqlite start at 1, so "is None" and falsiness coincide.   *)
(***************************************************************************)
EXTENDS Integers, Sequences, FiniteSets, TLC

\* Bounds of the model.
MaxElevators == 2
MaxFloors == 3
MaxCalls == 3
MaxOverlappingCalls == 2

VARIABLES
    num_elevators,    \* ElevatorSystem.num_elevators
    num_floors,       \* ElevatorSystem.num_floors
    elevators,        \* ElevatorSystem.elevators: list of Elevator objects
    db_elevators,     \* table elevators: id -> (current_floor, status)
    demands,          \* table demands, row id = index
    journeys,         \* table journeys, row id = index
    resting_periods,  \* table resting_periods, row id = index
    notified,         \* Event Sink calls made by the current (or last) call
    call,             \* the Control Surface call in progress and its locals
    result,           \* what the last completed call returned or raised
    requests_done,    \* successful request_elevator calls since the fleet was created
    calls,            \* Control Surface calls issued so far
    other             \* a second caller's call while that caller is not running

vars == <<num_elevators, num_floors, elevators, db_elevators, demands, journeys,
          resting_periods, notified, call, result, requests_done, calls, other>>

sink == <<db_elevators, demands, journeys, resting_periods>>

Abs(x) == IF x < 0 THEN -x ELSE x

----------------------------------------------------------------------------
\* Event Sink (src/database.py)

Note(op, elevator_id, floor, status, handle) ==
    [op |-> op, elevator_id |-> elevator_id, floor |-> floor,
     status |-> status, handle |-> handle]

\* An update that stores the status and leaves the floor column as it was
update_elevator_status_only(tbl, elevator_id, floor, status) ==
    [i \in DOMAIN tbl |->
        IF i = elevator_id THEN [tbl[i] EXCEPT !.status = status]
        ELSE tbl[i]]

\* An update without its WHERE clause: every elevator row is overwritten
update_elevator_status_all(tbl, elevator_id, floor, status) ==
    [i \in DOMAIN tbl |-> [current_floor |-> floor, status |-> status]]

\* UPDATE elevators SET current_floor, status WHERE id = elevator_id
update_elevator_status(tbl, elevator_id, floor, status) ==
    [i \in DOMAIN tbl |->
        IF i = elevator_id THEN [current_floor |-> floor, status |-> status]
        ELSE tbl[i]]

\* INSERT INTO resting_periods; the new row id is cursor.lastrowid
start_resting_period(tbl, elevator_id, floor) ==
    Append(tbl, [elevator_id |-> elevator_id, floor |-> floor, ended |-> FALSE])

\* UPDATE resting_periods SET end_time, duration_seconds WHERE id = resting_id
end_resting_period(tbl, resting_id) ==
    IF resting_id \in DOMAIN tbl
    THEN [tbl EXCEPT ![resting_id].ended = TRUE]
    ELSE tbl

\* A journey row that always starts at floor 0
start_journey_row_ground(tbl, elevator_id, start_floor) ==
    Append(tbl, [elevator_id |-> elevator_id, start_floor |-> 0,
                 end_floor |-> -1, ended |-> FALSE])

\* INSERT INTO journeys (elevator_id, start_time, start_floor, passenger_count)
start_journey_row(tbl, elevator_id, start_floor) ==
    Append(tbl, [elevator_id |-> elevator_id, start_floor |-> start_floor,
                 end_floor |-> -1, ended |-> FALSE])

\* An end_journey whose update is lost
end_journey_row_lost(tbl, journey_id, end_floor) == tbl

\* An update without its WHERE clause: every journey row is closed
end_journey_row_all(tbl, journey_id, end_floor) ==
    [j \in DOMAIN tbl |-> [tbl[j] EXCEPT !.ended = TRUE, !.end_floor = end_floor]]

\* UPDATE journeys SET end_time, end_floor WHERE id = journey_id
end_journey_row(tbl, journey_id, end_floor) ==
    IF journey_id \in DOMAIN tbl
    THEN [tbl EXCEPT ![journey_id].ended = TRUE, ![journey_id].end_floor = end_floor]
    ELSE tbl

\* A demand row that always stores a wait of 0
record_demand_zero_wait(tbl, origin_floor, destination_floor, elevator_id, wait_time) ==
    Append(tbl, [origin_floor |-> origin_floor,
                 destination_floor |-> destination_floor,
                 elevator_id |-> elevator_id, wait_time |-> 0])

\* INSERT INTO demands
record_demand(tbl, origin_floor, destination_floor, elevator_id, wait_time) ==
    Append(tbl, [origin_floor |-> origin_floor,
                 destination_floor |-> destination_floor,
                 elevator_id |-> elevator_id, wait_time |-> wait_time])

\* DELETE FROM every table, then one row (i, 0, "idle") per elevator
initialize_elevators(n) ==
    [i \in 1..n |-> [current_floor |-> 0, status |-> "idle"]]

----------------------------------------------------------------------------
\* Elevator (src/elevator_model.py)

\* An elevator created without its first resting period
NewElevatorNoResting(i) ==
    [id |-> i, current_floor |-> 0, status |-> "idle",
     current_resting_id |-> 0, current_journey_id |-> 0]

\* Elevator.__init__ followed by start_resting: the i-th elevator created
\* gets the i-th row of the (just emptied) resting_periods table.
NewElevator(i) ==
    [id |-> i, current_floor |-> 0, status |-> "idle",
     current_resting_id |-> i, current_journey_id |-> 0]

\* A test that never finds the elevator at the floor asked for
AtFloorNever(e, destination_floor) == FALSE

\* Elevator.move, line 38: the elevator is already at the destination
AtFloor(e, destination_floor) == e.current_floor = destination_floor

\* A travel time that keeps the sign of the difference
TravelTimeSigned(current_floor, destination_floor) ==
    destination_floor - current_floor

\* Elevator.move, line 56
TravelTime(current_floor, destination_floor) ==
    Abs(destination_floor - current_floor)

\* A direction that is up whatever the floors
DirectionAlwaysUp(current_floor, destination_floor) == "moving_up"

\* Elevator.move, lines 47-50
Direction(current_floor, destination_floor) ==
    IF destination_floor > current_floor THEN "moving_up" ELSE "moving_down"

\* An elevator that never ends its resting period when it leaves
HasRestingNever(e) == FALSE

\* Elevator.move, line 42: the resting period is ended only under this test
HasResting(e) == e.status = "idle" /\ e.current_resting_id # 0


\* A departure that already puts the elevator at the destination
MoveDepartJumps(e, destination_floor) ==
    [e EXCEPT !.current_resting_id = IF HasResting(e) THEN 0 ELSE @,
              !.status = Direction(e.current_floor, destination_floor),
              !.current_floor = destination_floor]

\* Elevator.move, lines 41-53: the elevator object when the move begins
MoveDepart(e, destination_floor) ==
    [e EXCEPT !.current_resting_id = IF HasResting(e) THEN 0 ELSE @,
              !.status = Direction(e.current_floor, destination_floor)]

\* An arrival that leaves the moving status in place
MoveArriveStaysMoving(e, destination_floor, resting_id) ==
    [e EXCEPT !.current_floor = destination_floor,
              !.current_resting_id = resting_id]

\* An arrival that drops the handle of the new resting period
MoveArriveNoHandle(e, destination_floor, resting_id) ==
    [e EXCEPT !.current_floor = destination_floor,
              !.status = "idle"]

\* An arrival that does not update the floor
MoveArriveKeepsFloor(e, destination_floor, resting_id) ==
    [e EXCEPT !.status = "idle",
              !.current_resting_id = resting_id]

\* An arrival that stores the row id before the one just inserted
MoveArriveOffByOne(e, destination_floor, resting_id) ==
    [e EXCEPT !.current_floor = destination_floor,
              !.status = "idle",
              !.current_resting_id = resting_id - 1]

\* Elevator.move, lines 59-67: the elevator object when the move ends;
\* resting_id is the handle start_resting_period returned
MoveArrive(e, destination_floor, resting_id) ==
    [e EXCEPT !.current_floor = destination_floor,
              !.status = "idle",
              !.current_resting_id = resting_id]

\* Elevator.move up to the sleep, applied to elevators[i], with its sink calls;
\* log holds the sink calls the running Control Surface call made before
Depart(i, destination_floor, log) ==
    LET e == elevators[i]
        moving == MoveDepart(e, destination_floor)
    IN  /\ elevators' = [elevators EXCEPT ![i] = moving]
        /\ resting_periods' =
              IF HasResting(e)
              THEN end_resting_period(resting_periods, e.current_resting_id)
              ELSE resting_periods
        /\ db_elevators' = update_elevator_status(db_elevators, e.id,
                                                  e.current_floor, moving.status)
        /\ notified' = log
              \o (IF HasResting(e)
                  THEN <<Note("end_resting_period", e.id, e.current_floor, "",
                              e.current_resting_id)>>
                  ELSE <<>>)
              \o <<Note("update_elevator_status", e.id, e.current_floor,
                        moving.status, 0)>>
        /\ UNCHANGED <<demands, journeys>>

\* Elevator.move after the sleep, applied to elevators[i], with its sink calls
Arrive(i, destination_floor) ==
    LET e == elevators[i]
        resting_id == Len(resting_periods) + 1
        arrived == MoveArrive(e, destination_floor, resting_id)
    IN  /\ elevators' = [elevators EXCEPT ![i] = arrived]
        /\ db_elevators' = update_elevator_status(db_elevators, e.id,
                                                  arrived.current_floor, arrived.status)
        /\ resting_periods' = start_resting_period(resting_periods, e.id,
                                                   arrived.current_floor)
        /\ notified' = notified
              \o <<Note("update_elevator_status", e.id, arrived.current_floor,
                        arrived.status, 0),
                   Note("start_resting_period", e.id, arrived.current_floor, "",
                        resting_id)>>
        /\ UNCHANGED <<demands, journeys>>

----------------------------------------------------------------------------
\* ElevatorSystem (src/elevator_model.py)

\* A range check that lets the floor num_floors through
ValidRequestInclusive(origin_floor, destination_floor, floors) ==
    /\ origin_floor # destination_floor
    /\ 0 <= origin_floor /\ origin_floor <= floors
    /\ 0 <= destination_floor /\ destination_floor <= floors

\* request_elevator, lines 111-118: no ValueError is raised
ValidRequest(origin_floor, destination_floor, floors) ==
    /\ origin_floor # destination_floor
    /\ 0 <= origin_floor /\ origin_floor < floors
    /\ 0 <= destination_floor /\ destination_floor < floors

\* A range check that lets the floor num_floors through
ValidFloorInclusive(optimal_floor, floors) ==
    0 <= optimal_floor /\ optimal_floor <= floors

\* move_elevator_to_resting_floor, line 169: no ValueError is raised
ValidFloor(optimal_floor, floors) ==
    0 <= optimal_floor /\ optimal_floor < floors

\* A comparison that lets a later elevator at the same distance win
CloserOrEqual(distance, min_distance) ==
    min_distance = -1 \/ distance <= min_distance

\* request_elevator, line 129; min_distance = -1 stands for float("inf")
Closer(distance, min_distance) ==
    min_distance = -1 \/ distance < min_distance

\* request_elevator, lines 121-131: the scan from position k on, with the
\* best position (0 for None) and min_distance found so far
RECURSIVE Scan(_, _, _, _, _)
Scan(elevs, origin_floor, k, best, min_distance) ==
    IF k > Len(elevs)
    THEN [idx |-> best, min_distance |-> min_distance]
    ELSE LET distance == Abs(elevs[k].current_floor - origin_floor)
         IN  IF Closer(distance, min_distance)
             THEN Scan(elevs, origin_floor, k + 1, k, distance)
             ELSE Scan(elevs, origin_floor, k + 1, best, min_distance)

SelectElevator(elevs, origin_floor) == Scan(elevs, origin_floor, 1, 0, -1)

\* A lookup by id alone, whatever the elevator's status
RECURSIVE FindAny(_, _, _)
FindAny(elevs, elevator_id, k) ==
    IF k > Len(elevs) THEN 0
    ELSE IF elevs[k].id = elevator_id THEN k
    ELSE FindAny(elevs, elevator_id, k + 1)

\* move_elevator_to_resting_floor, lines 172-173: position of the first
\* elevator with that id that is idle, 0 if the loop finds none
RECURSIVE FindIdle(_, _, _)
FindIdle(elevs, elevator_id, k) ==
    IF k > Len(elevs) THEN 0
    ELSE IF elevs[k].id = elevator_id /\ elevs[k].status = "idle" THEN k
    ELSE FindIdle(elevs, elevator_id, k + 1)

\* move_elevator_to_resting_floor, lines 174-175: the value returned once an
\* idle elevator was found; moved is what move_to_optimal_resting_floor returned
RestingFloorResult(moved) == TRUE

\* A snapshot that numbers the elevators from 0
StatusesZeroBased(elevs) ==
    [k \in 1..Len(elevs) |->
        [id |-> k - 1, floor |-> elevs[k].current_floor,
         status |-> elevs[k].status]]

\* get_elevators_status
Statuses(elevs) ==
    [k \in 1..Len(elevs) |->
        [id |-> elevs[k].id, floor |-> elevs[k].current_floor,
         status |-> elevs[k].status]]

----------------------------------------------------------------------------
\* Calls of the Control Surface

NoCall ==
    [op |-> "none", pc |-> "ready", idx |-> 0, origin |-> 0, destination |-> 0,
     pickup_time |-> 0, travel_time |-> 0, pre |-> <<>>]

NoResult ==
    [op |-> "none", kind |-> "none", error |-> "", a |-> 0, b |-> 0,
     elevator_id |-> 0, total_time |-> 0, flag |-> FALSE,
     pre |-> <<>>, statuses |-> <<>>]

Raised(op, a, b, error) ==
    [NoResult EXCEPT !.op = op, !.kind = "error", !.error = error, !.a = a, !.b = b,
                     !.pre = elevators]

Ready == call.pc = "ready" /\ calls < MaxCalls

\* A fleet creation that does not clear the history tables
InitializeFleetKeepsHistory(n, f) ==
    /\ num_elevators' = n
    /\ num_floors' = f
    /\ elevators' = [i \in 1..n |-> NewElevator(i)]
    /\ db_elevators' = initialize_elevators(n)
    /\ UNCHANGED <<demands, journeys>>
    /\ resting_periods' = resting_periods
          \o [i \in 1..n |-> [elevator_id |-> i, floor |-> 0, ended |-> FALSE]]
    /\ notified' = <<>>
    /\ call' = NoCall
    /\ result' = [NoResult EXCEPT !.op = "initialize", !.kind = "ok", !.a = n, !.b = f]
    /\ requests_done' = 0

\* ElevatorSystem.__init__ (and Elevator.__init__ for each elevator)
InitializeFleet(n, f) ==
    /\ num_elevators' = n
    /\ num_floors' = f
    /\ elevators' = [i \in 1..n |-> NewElevator(i)]
    /\ db_elevators' = initialize_elevators(n)
    /\ demands' = <<>>
    /\ journeys' = <<>>
    /\ resting_periods' = [i \in 1..n |-> [elevator_id |-> i, floor |-> 0, ended |-> FALSE]]
    /\ notified' = [k \in 1..(2 * n) |->
                      IF k % 2 = 1
                      THEN Note("update_elevator_status", (k + 1) \div 2, 0, "idle", 0)
                      ELSE Note("start_resting_period", k \div 2, 0, "", k \div 2)]
    /\ call' = NoCall
    /\ result' = [NoResult EXCEPT !.op = "initialize", !.kind = "ok", !.a = n, !.b = f]
    /\ requests_done' = 0

Reinitialize(n, f) ==
    /\ Ready
    /\ InitializeFleet(n, f)
    /\ calls' = calls + 1


\* request_elevator, lines 109-137: validation, selection, demand record
RequestElevator(origin_floor, destination_floor) ==
    /\ Ready
    /\ calls' = calls + 1
    /\ IF ~ValidRequest(origin_floor, destination_floor, num_floors)
       THEN /\ result' = Raised("request", origin_floor, destination_floor,
                                IF origin_floor = destination_floor
                                THEN "same_floor" ELSE "out_of_range")
            /\ notified' = <<>>
            /\ UNCHANGED <<call, demands>>
       ELSE LET sel == SelectElevator(elevators, origin_floor)
                wait_time == sel.min_distance
            IN  /\ demands' = record_demand(demands, origin_floor, destination_floor,
                                            elevators[sel.idx].id, wait_time)
                /\ notified' = <<Note("record_demand", elevators[sel.idx].id,
                                      origin_floor, "", Len(demands) + 1)>>
                /\ call' = [NoCall EXCEPT !.op = "request", !.pc = "start_journey",
                                          !.idx = sel.idx,
                                          !.origin = origin_floor,
                                          !.destination = destination_floor,
                                          !.pre = elevators]
                /\ result' = NoResult
    /\ UNCHANGED <<num_elevators, num_floors, elevators, db_elevators, journeys,
                   resting_periods, requests_done>>

\* request_elevator, line 140: Elevator.start_journey(current_floor)
StartJourney ==
    /\ call.pc = "start_journey"
    /\ LET e == elevators[call.idx]
           journey_id == Len(journeys) + 1
       IN  /\ journeys' = start_journey_row(journeys, e.id, e.current_floor)
           /\ elevators' = [elevators EXCEPT ![call.idx].current_journey_id = journey_id]
           /\ notified' = Append(notified, Note("start_journey", e.id, e.current_floor,
                                                "", journey_id))
    /\ call' = [call EXCEPT !.pc = "pickup"]
    /\ UNCHANGED <<num_elevators, num_floors, db_elevators, demands, resting_periods,
                   result, requests_done, calls>>

\* request_elevator, line 141: Elevator.move(origin_floor) up to its sleep, or
\* all of it when the elevator already stands at origin_floor
Pickup ==
    /\ call.pc = "pickup"
    /\ LET e == elevators[call.idx]
       IN  IF AtFloor(e, call.origin)
           THEN /\ call' = [call EXCEPT !.pc = "deliver", !.pickup_time = 0]
                /\ UNCHANGED <<elevators, db_elevators, demands, journeys,
                               resting_periods, notified>>
           ELSE /\ Depart(call.idx, call.origin, notified)
                /\ call' = [call EXCEPT !.pc = "pickup_sleep",
                                        !.pickup_time = TravelTime(e.current_floor,
                                                                   call.origin)]
    /\ UNCHANGED <<num_elevators, num_floors, result, requests_done, calls>>

\* Elevator.move(origin_floor) after its sleep
PickupArrive ==
    /\ call.pc = "pickup_sleep"
    /\ Arrive(call.idx, call.origin)
    /\ call' = [call EXCEPT !.pc = "deliver"]
    /\ UNCHANGED <<num_elevators, num_floors, result, requests_done, calls>>

\* request_elevator, line 144: Elevator.move(destination_floor) up to its sleep
Deliver ==
    /\ call.pc = "deliver"
    /\ LET e == elevators[call.idx]
       IN  IF AtFloor(e, call.destination)
           THEN /\ call' = [call EXCEPT !.pc = "end_journey", !.travel_time = 0]
                /\ UNCHANGED <<elevators, db_elevators, demands, journeys,
                               resting_periods, notified>>
           ELSE /\ Depart(call.idx, call.destination, notified)
                /\ call' = [call EXCEPT !.pc = "deliver_sleep",
                                        !.travel_time = TravelTime(e.current_floor,
                                                                   call.destination)]
    /\ UNCHANGED <<num_elevators, num_floors, result, requests_done, calls>>

\* Elevator.move(destination_floor) after its sleep
DeliverArrive ==
    /\ call.pc = "deliver_sleep"
    /\ Arrive(call.idx, call.destination)
    /\ call' = [call EXCEPT !.pc = "end_journey"]
    /\ UNCHANGED <<num_elevators, num_floors, result, requests_done, calls>>

\* A total that leaves the pickup leg out
TotalTimeDeliveryOnly(pickup_time, travel_time) == travel_time

\* request_elevator, line 150
TotalTime(pickup_time, travel_time) == pickup_time + travel_time

\* request_elevator, lines 147-152: Elevator.end_journey and the return
EndJourney ==
    /\ call.pc = "end_journey"
    /\ LET e == elevators[call.idx]
       IN  /\ IF e.current_journey_id # 0
              THEN /\ journeys' = end_journey_row(journeys, e.current_journey_id,
                                                  call.destination)
                   /\ elevators' = [elevators EXCEPT ![call.idx].current_journey_id = 0]
                   /\ notified' = Append(notified,
                                         Note("end_journey", e.id, call.destination,
                                              "", e.current_journey_id))
              ELSE UNCHANGED <<journeys, elevators, notified>>
           /\ result' = [NoResult EXCEPT !.op = "request", !.kind = "ok",
                                         !.a = call.origin, !.b = call.destination,
                                         !.elevator_id = e.id,
                                         !.total_time = TotalTime(call.pickup_time,
                                                                 call.travel_time),
                                         !.pre = call.pre]
    /\ call' = NoCall
    /\ requests_done' = requests_done + 1
    /\ UNCHANGED <<num_elevators, num_floors, db_elevators, demands, resting_periods,
                   calls>>

\* move_elevator_to_resting_floor, with Elevator.move_to_optimal_resting_floor
\* and Elevator.move up to its sleep
MoveElevatorToRestingFloor(elevator_id, optimal_floor) ==
    /\ Ready
    /\ calls' = calls + 1
    /\ LET k == FindIdle(elevators, elevator_id, 1)
       IN  IF ~ValidFloor(optimal_floor, num_floors)
           THEN /\ result' = Raised("reposition", elevator_id, optimal_floor,
                                    "out_of_range")
                /\ notified' = <<>>
                /\ UNCHANGED <<call, elevators, sink>>
           ELSE IF k = 0
           THEN /\ result' = [NoResult EXCEPT !.op = "reposition", !.kind = "ok",
                                              !.a = elevator_id, !.b = optimal_floor,
                                              !.flag = FALSE,
                                              !.pre = elevators]
                /\ notified' = <<>>
                /\ UNCHANGED <<call, elevators, sink>>
           ELSE IF AtFloor(elevators[k], optimal_floor)
           THEN /\ result' = [NoResult EXCEPT !.op = "reposition", !.kind = "ok",
                                              !.a = elevator_id, !.b = optimal_floor,
                                              !.elevator_id = elevators[k].id,
                                              !.flag = RestingFloorResult(FALSE),
                                              !.pre = elevators]
                /\ notified' = <<>>
                /\ UNCHANGED <<call, elevators, sink>>
           ELSE /\ result' = NoResult
                /\ call' = [NoCall EXCEPT !.op = "reposition", !.pc = "resting_sleep",
                                          !.idx = k, !.origin = elevator_id,
                                          !.destination = optimal_floor,
                                          !.travel_time =
                                              TravelTime(elevators[k].current_floor,
                                                         optimal_floor),
                                          !.pre = elevators]
                /\ Depart(k, optimal_floor, <<>>)
    /\ UNCHANGED <<num_elevators, num_floors, requests_done>>

\* Elevator.move(optimal_floor) after its sleep, then the returns of
\* move_to_optimal_resting_floor (line 91) and move_elevator_to_resting_floor
RestingArrive ==
    /\ call.pc = "resting_sleep"
    /\ Arrive(call.idx, call.destination)
    /\ result' = [NoResult EXCEPT !.op = "reposition", !.kind = "ok",
                                  !.a = call.origin, !.b = call.destination,
                                  !.elevator_id = elevators[call.idx].id,
                                  !.flag = RestingFloorResult(call.travel_time > 0),
                                  !.pre = call.pre]
    /\ call' = NoCall
    /\ UNCHANGED <<num_elevators, num_floors, requests_done, calls>>

\* get_elevators_status
GetElevatorsStatus ==
    /\ Ready
    /\ calls' = calls + 1
    /\ result' = [NoResult EXCEPT !.op = "status", !.kind = "ok",
                                  !.statuses = Statuses(elevators)]
    /\ notified' = <<>>
    /\ UNCHANGED <<num_elevators, num_floors, elevators, sink, call, requests_done>>

----------------------------------------------------------------------------
\* What the Control Surface may pass: fleet sizes of the contract, floors and
\* ids in range and one step outside it on either side.
FleetSizes == 1..MaxElevators
BuildingHeights == 2..MaxFloors
FloorInputs == -1..num_floors
IdInputs == 0..(num_elevators + 1)

Init ==
    /\ calls = 0
    /\ \E n \in FleetSizes, f \in BuildingHeights :
          /\ num_elevators = n
          /\ num_floors = f
          /\ elevators = [i \in 1..n |-> NewElevator(i)]
          /\ db_elevators = initialize_elevators(n)
          /\ resting_periods = [i \in 1..n |->
                                  [elevator_id |-> i, floor |-> 0, ended |-> FALSE]]
          /\ notified = [k \in 1..(2 * n) |->
                           IF k % 2 = 1
                           THEN Note("update_elevator_status", (k + 1) \div 2, 0, "idle", 0)
                           ELSE Note("start_resting_period", k \div 2, 0, "", k \div 2)]
          /\ result = [NoResult EXCEPT !.op = "initialize", !.kind = "ok",
                                       !.a = n, !.b = f]
    /\ demands = <<>>
    /\ journeys = <<>>
    /\ call = NoCall
    /\ requests_done = 0
    /\ other = NoCall

\* One caller, one call at a time (the execution model of the application)
Next ==
    \/ (\E n \in FleetSizes, f \in BuildingHeights : Reinitialize(n, f)) /\ UNCHANGED other
    \/ (\E o \in FloorInputs, d \in FloorInputs : RequestElevator(o, d)) /\ UNCHANGED other
    \/ StartJourney /\ UNCHANGED other
    \/ Pickup /\ UNCHANGED other
    \/ PickupArrive /\ UNCHANGED other
    \/ Deliver /\ UNCHANGED other
    \/ DeliverArrive /\ UNCHANGED other
    \/ EndJourney /\ UNCHANGED other
    \/ (\E id \in IdInputs, t \in FloorInputs : MoveElevatorToRestingFloor(id, t))
          /\ UNCHANGED other
    \/ RestingArrive /\ UNCHANGED other
    \/ GetElevatorsStatus /\ UNCHANGED other

Spec == Init /\ [][Next]_vars

\* Two callers on one ElevatorSystem: call holds the locals of the caller that
\* is running, other those of the caller that is not; Switch hands over.
Switch ==
    /\ call' = other
    /\ other' = call
    /\ UNCHANGED <<num_elevators, num_floors, elevators, sink, notified, result,
                   requests_done, calls>>

\* The two callers together issue at most MaxOverlappingCalls calls
MayCall == calls < MaxOverlappingCalls

NextConc ==
    \/ /\ MayCall
       /\ \E o \in FloorInputs, d \in FloorInputs : RequestElevator(o, d)
       /\ UNCHANGED other
    \/ StartJourney /\ UNCHANGED other
    \/ Pickup /\ UNCHANGED other
    \/ PickupArrive /\ UNCHANGED other
    \/ Deliver /\ UNCHANGED other
    \/ DeliverArrive /\ UNCHANGED other
    \/ EndJourney /\ UNCHANGED other
    \/ /\ MayCall
       /\ \E id \in IdInputs, t \in FloorInputs : MoveElevatorToRestingFloor(id, t)
       /\ UNCHANGED other
    \/ RestingArrive /\ UNCHANGED other
    \/ Switch

SpecConc == Init /\ [][NextConc]_vars

\* Elevator.start_journey called on elevators[i] by a holder of the object
DirectStartJourney(i, start_floor) ==
    /\ Ready
    /\ calls' = calls + 1
    /\ LET e == elevators[i]
           journey_id == Len(journeys) + 1
       IN  /\ journeys' = start_journey_row(journeys, e.id, start_floor)
           /\ elevators' = [elevators EXCEPT ![i].current_journey_id = journey_id]
           /\ notified' = <<Note("start_journey", e.id, start_floor, "", journey_id)>>
           /\ result' = [NoResult EXCEPT !.op = "start_journey", !.kind = "ok",
                                         !.a = i, !.b = start_floor,
                                         !.elevator_id = e.id, !.pre = elevators]
    /\ UNCHANGED <<num_elevators, num_floors, db_elevators, demands, resting_periods,
                   call, requests_done>>

\* Elevator.end_journey called on elevators[i] by a holder of the object
DirectEndJourney(i, end_floor) ==
    /\ Ready
    /\ calls' = calls + 1
    /\ LET e == elevators[i]
       IN  /\ IF e.current_journey_id # 0
              THEN /\ journeys' = end_journey_row(journeys, e.current_journey_id,
                                                  end_floor)
                   /\ elevators' = [elevators EXCEPT ![i].current_journey_id = 0]
                   /\ notified' = <<Note("end_journey", e.id, end_floor, "",
                                         e.current_journey_id)>>
              ELSE /\ notified' = <<>>
                   /\ UNCHANGED <<journeys, elevators>>
           /\ result' = [NoResult EXCEPT !.op = "end_journey", !.kind = "ok",
                                         !.a = i, !.b = end_floor,
                                         !.elevator_id = e.id, !.pre = elevators]
    /\ UNCHANGED <<num_elevators, num_floors, db_elevators, demands, resting_periods,
                   call, requests_done>>

\* Elevator.move called on elevators[i]: all of it when the elevator already
\* stands at the floor, else up to its sleep
DirectMove(i, destination_floor) ==
    /\ Ready
    /\ calls' = calls + 1
    /\ IF AtFloor(elevators[i], destination_floor)
       THEN /\ result' = [NoResult EXCEPT !.op = "move", !.kind = "ok",
                                          !.a = i, !.b = destination_floor,
                                          !.elevator_id = elevators[i].id,
                                          !.pre = elevators]
            /\ notified' = <<>>
            /\ UNCHANGED <<call, elevators, sink>>
       ELSE /\ result' = NoResult
            /\ call' = [NoCall EXCEPT !.op = "move", !.pc = "move_sleep",
                                      !.idx = i, !.origin = i,
                                      !.destination = destination_floor,
                                      !.travel_time =
                                          TravelTime(elevators[i].current_floor,
                                                     destination_floor),
                                      !.pre = elevators]
            /\ Depart(i, destination_floor, <<>>)
    /\ UNCHANGED <<num_elevators, num_floors, requests_done>>

\* Elevator.move after its sleep, and its return
DirectMoveArrive ==
    /\ call.pc = "move_sleep"
    /\ Arrive(call.idx, call.destination)
    /\ result' = [NoResult EXCEPT !.op = "move", !.kind = "ok",
                                  !.a = call.origin, !.b = call.destination,
                                  !.elevator_id = elevators[call.idx].id,
                                  !.total_time = call.travel_time,
                                  !.pre = call.pre]
    /\ call' = NoCall
    /\ UNCHANGED <<num_elevators, num_floors, requests_done, calls>>

\* A result that says "moved" whatever the travel time
MovedAlways(travel_time) == TRUE

\* Elevator.move_to_optimal_resting_floor, line 91
Moved(travel_time) == travel_time > 0

\* Elevator.move_to_optimal_resting_floor called on elevators[i]. On an
\* elevator that is not idle (a move of it is asleep) it returns at line 88;
\* on an idle one it runs Elevator.move, here up to its sleep.
DirectMoveToRestingFloor(i, optimal_floor) ==
    /\ calls < MaxCalls
    /\ calls' = calls + 1
    /\ LET e == elevators[i]
       IN  IF e.status # "idle"
           THEN /\ result' = [NoResult EXCEPT !.op = "resting", !.kind = "ok",
                                              !.a = i, !.b = optimal_floor,
                                              !.elevator_id = e.id,
                                              !.flag = FALSE,
                                              !.pre = elevators]
                /\ UNCHANGED <<call, elevators, sink, notified>>
           ELSE IF AtFloor(e, optimal_floor)
           THEN /\ call.pc = "ready"
                /\ result' = [NoResult EXCEPT !.op = "resting", !.kind = "ok",
                                              !.a = i, !.b = optimal_floor,
                                              !.elevator_id = e.id,
                                              !.flag = Moved(0),
                                              !.pre = elevators]
                /\ notified' = <<>>
                /\ UNCHANGED <<call, elevators, sink>>
           ELSE /\ call.pc = "ready"
                /\ result' = NoResult
                /\ call' = [NoCall EXCEPT !.op = "resting", !.pc = "own_resting_sleep",
                                          !.idx = i, !.origin = i,
                                          !.destination = optimal_floor,
                                          !.travel_time =
                                              TravelTime(e.current_floor, optimal_floor),
                                          !.pre = elevators]
                /\ Depart(i, optimal_floor, <<>>)
    /\ UNCHANGED <<num_elevators, num_floors, requests_done>>

\* Elevator.move_to_optimal_resting_floor: its move after the sleep, and line 91
DirectRestingArrive ==
    /\ call.pc = "own_resting_sleep"
    /\ Arrive(call.idx, call.destination)
    /\ result' = [NoResult EXCEPT !.op = "resting", !.kind = "ok",
                                  !.a = call.origin, !.b = call.destination,
                                  !.elevator_id = elevators[call.idx].id,
                                  !.flag = Moved(call.travel_time),
                                  !.pre = call.pre]
    /\ call' = NoCall
    /\ UNCHANGED <<num_elevators, num_floors, requests_done, calls>>

\* The operations of the Elevator objects, called by a holder of the objects
NextDirect ==
    \/ /\ \E i \in 1..num_elevators, f \in 0..(num_floors - 1) : DirectStartJourney(i, f)
       /\ UNCHANGED other
    \/ /\ \E i \in 1..num_elevators, f \in 0..(num_floors - 1) : DirectEndJourney(i, f)
       /\ UNCHANGED other
    \/ /\ \E i \in 1..num_elevators, f \in 0..(num_floors - 1) : DirectMove(i, f)
       /\ UNCHANGED other
    \/ DirectMoveArrive /\ UNCHANGED other
    \/ /\ \E i \in 1..num_elevators, f \in 0..(num_floors - 1) :
             DirectMoveToRestingFloor(i, f)
       /\ UNCHANGED other
    \/ DirectRestingArrive /\ UNCHANGED other

SpecDirect == Init /\ [][NextDirect]_vars

\* A sink call raises (sqlite3.Error): nothing in the code catches it, so
\* the running call ends there and the caller gets the exception
SinkFailure(op, a, b) ==
    /\ call' = NoCall
    /\ result' = Raised(op, a, b, "sink_failure")

\* The floor the running call's move is heading for
MoveTarget ==
    IF call.pc \in {"pickup", "pickup_sleep"} THEN call.origin ELSE call.destination

\* request_elevator, line 133: db.record_demand raises
FailRecordDemand(origin_floor, destination_floor) ==
    /\ Ready
    /\ calls' = calls + 1
    /\ ValidRequest(origin_floor, destination_floor, num_floors)
    /\ SinkFailure("request", origin_floor, destination_floor)
    /\ notified' = <<>>
    /\ UNCHANGED <<num_elevators, num_floors, elevators, sink, requests_done>>

\* Elevator.start_journey, line 73: db.start_journey raises before the assignment
FailStartJourney ==
    /\ call.pc = "start_journey"
    /\ SinkFailure("request", call.origin, call.destination)
    /\ UNCHANGED <<num_elevators, num_floors, elevators, sink, notified,
                   requests_done, calls>>

\* Elevator.move, line 43: db.end_resting_period raises
FailEndResting ==
    /\ call.pc \in {"pickup", "deliver"}
    /\ ~AtFloor(elevators[call.idx], MoveTarget)
    /\ HasResting(elevators[call.idx])
    /\ SinkFailure("request", call.origin, call.destination)
    /\ UNCHANGED <<num_elevators, num_floors, elevators, sink, notified,
                   requests_done, calls>>

\* Elevator.move, line 53: db.update_elevator_status raises after lines 42-50
FailDepartStatus ==
    /\ call.pc \in {"pickup", "deliver"}
    /\ LET e == elevators[call.idx]
       IN  /\ ~AtFloor(e, MoveTarget)
           /\ elevators' = [elevators EXCEPT ![call.idx] = MoveDepart(e, MoveTarget)]
           /\ resting_periods' =
                 IF HasResting(e)
                 THEN end_resting_period(resting_periods, e.current_resting_id)
                 ELSE resting_periods
           /\ notified' = notified
                 \o (IF HasResting(e)
                     THEN <<Note("end_resting_period", e.id, e.current_floor, "",
                                 e.current_resting_id)>>
                     ELSE <<>>)
    /\ SinkFailure("request", call.origin, call.destination)
    /\ UNCHANGED <<num_elevators, num_floors, db_elevators, demands, journeys,
                   requests_done, calls>>

\* Elevator.move, line 62: db.update_elevator_status raises after lines 60-61
FailArriveStatus ==
    /\ call.pc \in {"pickup_sleep", "deliver_sleep", "resting_sleep"}
    /\ elevators' = [elevators EXCEPT ![call.idx].current_floor = MoveTarget,
                                      ![call.idx].status = "idle"]
    /\ SinkFailure(call.op, call.origin, call.destination)
    /\ UNCHANGED <<num_elevators, num_floors, sink, notified, requests_done, calls>>

\* Elevator.move, line 65: db.start_resting_period raises after lines 60-62
FailStartResting ==
    /\ call.pc \in {"pickup_sleep", "deliver_sleep", "resting_sleep"}
    /\ LET e == elevators[call.idx]
       IN  /\ elevators' = [elevators EXCEPT ![call.idx].current_floor = MoveTarget,
                                             ![call.idx].status = "idle"]
           /\ db_elevators' = update_elevator_status(db_elevators, e.id,
                                                     MoveTarget, "idle")
           /\ notified' = Append(notified,
                                 Note("update_elevator_status", e.id, MoveTarget,
                                      "idle", 0))
    /\ SinkFailure(call.op, call.origin, call.destination)
    /\ UNCHANGED <<num_elevators, num_floors, demands, journeys, resting_periods,
                   requests_done, calls>>

\* Elevator.end_journey, line 81: db.end_journey raises before the handle is cleared
FailEndJourney ==
    /\ call.pc = "end_journey"
    /\ elevators[call.idx].current_journey_id # 0
    /\ SinkFailure("request", call.origin, call.destination)
    /\ UNCHANGED <<num_elevators, num_floors, elevators, sink, notified,
                   requests_done, calls>>

\* One caller, with a sink whose calls may raise
NextFail ==
    \/ (\E o \in FloorInputs, d \in FloorInputs : RequestElevator(o, d)) /\ UNCHANGED other
    \/ StartJourney /\ UNCHANGED other
    \/ Pickup /\ UNCHANGED other
    \/ PickupArrive /\ UNCHANGED other
    \/ Deliver /\ UNCHANGED other
    \/ DeliverArrive /\ UNCHANGED other
    \/ EndJourney /\ UNCHANGED other
    \/ (\E id \in IdInputs, t \in FloorInputs : MoveElevatorToRestingFloor(id, t))
          /\ UNCHANGED other
    \/ RestingArrive /\ UNCHANGED other
    \/ (\E o \in FloorInputs, d \in FloorInputs : FailRecordDemand(o, d))
          /\ UNCHANGED other
    \/ FailStartJourney /\ UNCHANGED other
    \/ FailEndResting /\ UNCHANGED other
    \/ FailDepartStatus /\ UNCHANGED other
    \/ FailArriveStatus /\ UNCHANGED other
    \/ FailStartResting /\ UNCHANGED other
    \/ FailEndJourney /\ UNCHANGED other

SpecFail == Init /\ [][NextFail]_vars

TypeOK ==
    /\ num_elevators \in FleetSizes
    /\ num_floors \in BuildingHeights
    /\ Len(elevators) = num_elevators
    /\ calls \in 0..MaxCalls
    /\ call.pc \in {"ready", "start_journey", "pickup", "pickup_sleep", "deliver",
                    "deliver_sleep", "end_journey", "resting_sleep",
                    "move_sleep", "own_resting_sleep"}

----------------------------------------------------------------------------
\* Properties

Positions == 1..Len(elevators)

\* The request (o, d) is one the contract calls valid in a building of f floors
InRangeDistinct(o, d, f) == o # d /\ o \in 0..(f - 1) /\ d \in 0..(f - 1)

\* Rows of the sink that are open for the elevator with this id
OpenJourneys(id) ==
    {j \in DOMAIN journeys : journeys[j].elevator_id = id /\ ~journeys[j].ended}

OpenRestings(id) ==
    {r \in DOMAIN resting_periods :
        resting_periods[r].elevator_id = id /\ ~resting_periods[r].ended}

RequestReturned == result.op = "request" /\ result.kind = "ok"

\* C1: a request with distinct floors, both in range, never raises; when it
\* returns, the elevator id is in 1..numElevators and the total time is >= 0.
C1_ValidRequestReturnsIdAndTime ==
    (result.op = "request" /\ InRangeDistinct(result.a, result.b, num_floors))
        => /\ result.kind = "ok"
           /\ result.elevator_id \in 1..num_elevators
           /\ result.total_time >= 0

\* a second request has returned, after the fleet had moved, with a positive time
C1_Witness ==
    RequestReturned /\ requests_done >= 2 /\ result.total_time > 0

\* C2: when a request (o, d) has returned, the elevator with the returned id
\* stands at d and is idle, wherever it stood before.
C2_ReturnedElevatorAtDestinationIdle ==
    RequestReturned =>
        /\ \E k \in Positions : elevators[k].id = result.elevator_id
        /\ \A k \in Positions :
              elevators[k].id = result.elevator_id
                  => /\ elevators[k].current_floor = result.b
                     /\ elevators[k].status = "idle"

\* a request has returned whose elevator already stood at the origin floor
C2_Witness ==
    /\ RequestReturned
    /\ \E k \in Positions :
          /\ result.pre[k].id = result.elevator_id
          /\ result.pre[k].current_floor = result.a
          /\ result.a # 0

\* C3 as stated: every elevator has at most one open journey, at most one open
\* resting period, and never an open journey together with an open resting period.
C3_NeverJourneyAndRestingOpen ==
    \A k \in Positions :
        /\ Cardinality(OpenJourneys(elevators[k].id)) <= 1
        /\ Cardinality(OpenRestings(elevators[k].id)) <= 1
        /\ ~(OpenJourneys(elevators[k].id) # {} /\ OpenRestings(elevators[k].id) # {})

\* C3 as amended: in every state, also between the steps of a request, every
\* elevator has at most one open journey and at most one open resting period,
\* and they are the ones its handles name; a journey and a resting period may
\* be open together (the journey stays open while the elevator is idle).
C3_AtMostOneOpenEach ==
    \A k \in Positions :
        LET e == elevators[k]
        IN  /\ Cardinality(OpenJourneys(e.id)) <= 1
            /\ Cardinality(OpenRestings(e.id)) <= 1
            /\ OpenJourneys(e.id) = (IF e.current_journey_id = 0 THEN {}
                                     ELSE {e.current_journey_id})
            /\ OpenRestings(e.id) = (IF e.current_resting_id = 0 THEN {}
                                     ELSE {e.current_resting_id})

\* after the pickup leg of a request the journey and a resting period are both open
C3_Witness ==
    /\ call.pc = "deliver"
    /\ call.pickup_time > 0
    /\ OpenJourneys(elevators[call.idx].id) # {}
    /\ OpenRestings(elevators[call.idx].id) # {}

\* C4: a request with equal floors, or with a floor outside 0..numFloors-1,
\* raises the invalid-request error in every fleet state and is never started.
C4_InvalidRequestRaises ==
    /\ (result.op = "request" /\ ~InRangeDistinct(result.a, result.b, num_floors))
          => result.kind = "error"
    /\ call.op = "request" => InRangeDistinct(call.origin, call.destination, num_floors)

\* the request (0, numFloors) was rejected after the fleet had moved
C4_Witness ==
    /\ result.op = "request" /\ result.kind = "error"
    /\ result.a = 0 /\ result.b = num_floors
    /\ \E k \in Positions : elevators[k].current_floor # 0

\* C5: the assigned elevator is at minimal distance from the origin floor
\* among the floors the fleet had when the request came in, no elevator at the
\* same distance has a smaller id, and on a fleet all at floor 0 it is elevator 1.
C5_NearestThenSmallestId ==
    call.op = "request" =>
        LET a == call.idx
            dist(k) == Abs(call.pre[k].current_floor - call.origin)
        IN  /\ a \in 1..Len(call.pre)
            /\ \A k \in 1..Len(call.pre) :
                  /\ dist(a) <= dist(k)
                  /\ dist(k) = dist(a) => call.pre[a].id <= call.pre[k].id
            /\ (\A k \in 1..Len(call.pre) : call.pre[k].current_floor = 0)
                  => call.pre[a].id = 1

\* two elevators on different floors were equally near the origin floor
C5_Witness ==
    /\ call.op = "request"
    /\ \E k \in 1..Len(call.pre) :
          /\ k # call.idx
          /\ call.pre[k].current_floor # call.pre[call.idx].current_floor
          /\ Abs(call.pre[k].current_floor - call.origin)
                = Abs(call.pre[call.idx].current_floor - call.origin)

\* C6: whenever no call is running, N successful requests since the fleet was
\* created have left exactly N demands and N journeys, all journeys are closed
\* and no elevator holds a journey handle.
C6_DemandsAndJourneysMatchRequests ==
    call.pc = "ready" =>
        /\ Len(demands) = requests_done
        /\ Len(journeys) = requests_done
        /\ \A j \in DOMAIN journeys : journeys[j].ended
        /\ \A k \in Positions : elevators[k].current_journey_id = 0

\* two requests succeeded and another call (reposition or rejected request) ran too
C6_Witness ==
    /\ call.pc = "ready"
    /\ requests_done = 2
    /\ calls = 3
    /\ result.op \in {"request", "reposition"}

\* C7: an elevator has an open resting period exactly when its status is idle;
\* when idle its handle names that one open period, when moving it has none.
C7_RestingIffIdle ==
    \A k \in Positions :
        LET e == elevators[k]
        IN  /\ e.status \in {"idle", "moving_up", "moving_down"}
            /\ (e.status = "idle") <=> (OpenRestings(e.id) # {})
            /\ e.status = "idle" => /\ e.current_resting_id # 0
                                    /\ OpenRestings(e.id) = {e.current_resting_id}
            /\ e.status # "idle" => e.current_resting_id = 0

\* an elevator is moving, with no resting period open, after an earlier request
C7_Witness ==
    /\ requests_done >= 1
    /\ \E k \in Positions :
          /\ elevators[k].status = "moving_down"
          /\ OpenRestings(elevators[k].id) = {}

\* C8 as stated: a reposition of an idle elevator to the floor it already
\* stands at returns false, moves nothing, makes no sink call and leaves the
\* open resting period as it was.
C8_SameFloorRepositionReturnsFalse ==
    (/\ result.op = "reposition"
     /\ \E k \in 1..Len(result.pre) :
           /\ result.pre[k].id = result.a
           /\ result.pre[k].status = "idle"
           /\ result.pre[k].current_floor = result.b)
        => /\ result.kind = "ok"
           /\ result.flag = FALSE
           /\ elevators = result.pre
           /\ notified = <<>>

\* C9: a reposition of an idle elevator of the fleet to another floor in range
\* returns true, and the elevator then stands at that floor, idle.
C9_RepositionToOtherFloorReturnsTrue ==
    \A k \in 1..Len(result.pre) :
        (/\ result.op = "reposition"
         /\ result.pre[k].id = result.a
         /\ result.pre[k].status = "idle"
         /\ result.b \in 0..(num_floors - 1)
         /\ result.pre[k].current_floor # result.b)
            => /\ result.kind = "ok"
               /\ result.flag = TRUE
               /\ elevators[k].id = result.a
               /\ elevators[k].current_floor = result.b
               /\ elevators[k].status = "idle"

\* a reposition has returned that moved an elevator away from a floor other than 0
C9_Witness ==
    /\ result.op = "reposition"
    /\ result.kind = "ok"
    /\ \E k \in 1..Len(result.pre) :
          /\ result.pre[k].id = result.a
          /\ result.pre[k].current_floor # 0
          /\ result.pre[k].current_floor # result.b
          /\ elevators[k].current_floor = result.b

\* C10 as stated: a reposition to a floor outside 0..numFloors-1 returns false
\* without raising and leaves every elevator unchanged.
C10_OutOfRangeRepositionReturnsFalse ==
    (result.op = "reposition" /\ result.b \notin 0..(num_floors - 1))
        => /\ result.kind = "ok"
           /\ result.flag = FALSE
           /\ elevators = result.pre

\* C10 as amended: a reposition to a floor outside 0..numFloors-1 raises the
\* invalid-floor error to the caller, makes no sink call and leaves every
\* elevator unchanged.
C10_OutOfRangeRepositionRaises ==
    (result.op = "reposition" /\ result.b \notin 0..(num_floors - 1))
        => /\ result.kind = "error"
           /\ result.error = "out_of_range"
           /\ elevators = result.pre
           /\ notified = <<>>

\* a reposition to floor numFloors was rejected after the fleet had moved
C10_Witness ==
    /\ result.op = "reposition"
    /\ result.kind = "error"
    /\ result.b = num_floors
    /\ result.a \in 1..num_elevators
    /\ \E k \in Positions : elevators[k].current_floor # 0

\* C14: get_elevators_status changes no elevator and no sink table and makes
\* no sink call; it returns one entry per elevator, in the fleet's ascending
\* id order, with the elevator's id, floor and status as they are in memory.
C14_StatusIsReadOnlySnapshot ==
    /\ [](result.op = "status" =>
            /\ Len(result.statuses) = num_elevators
            /\ \A k \in 1..Len(result.statuses) :
                  /\ result.statuses[k].id = elevators[k].id
                  /\ result.statuses[k].floor = elevators[k].current_floor
                  /\ result.statuses[k].status = elevators[k].status
                  /\ \A j \in 1..(k - 1) : result.statuses[j].id < result.statuses[k].id)
    /\ [][(result'.op = "status" /\ calls' = calls + 1)
             => /\ UNCHANGED <<elevators, sink, num_elevators, num_floors>>
                /\ notified' = <<>>]_vars

\* a status query has returned for a fleet of several elevators on different floors
C14_Witness ==
    /\ result.op = "status"
    /\ \E j, k \in Positions :
          result.statuses[j].floor # result.statuses[k].floor

\* C15: right after the fleet is created it has numElevators elevators with
\* ids 1..numElevators, each idle at floor 0 with no journey and exactly one
\* open resting period, at floor 0, and the sink shows each at floor 0, idle.
C15_FreshFleet ==
    result.op = "initialize" =>
        /\ num_elevators = result.a
        /\ num_floors = result.b
        /\ Len(elevators) = result.a
        /\ DOMAIN db_elevators = 1..result.a
        /\ \A k \in 1..result.a :
              /\ elevators[k].id = k
              /\ elevators[k].current_floor = 0
              /\ elevators[k].status = "idle"
              /\ elevators[k].current_journey_id = 0
              /\ OpenJourneys(k) = {}
              /\ Cardinality(OpenRestings(k)) = 1
              /\ OpenRestings(k) = {elevators[k].current_resting_id}
              /\ \A r \in OpenRestings(k) : resting_periods[r].floor = 0
              /\ db_elevators[k].current_floor = 0
              /\ db_elevators[k].status = "idle"

\* a fleet of several elevators was created by a later call of the Control Surface
C15_Witness ==
    result.op = "initialize" /\ calls >= 1 /\ num_elevators >= 2

\* C16: creating the fleet again, after whatever happened before, leaves no
\* demand and no journey, and as resting periods only the one open period per
\* new elevator: the same state as a first creation with these sizes.
C16_ReinitializeClearsHistory ==
    result.op = "initialize" =>
        /\ demands = <<>>
        /\ journeys = <<>>
        /\ requests_done = 0
        /\ call = NoCall
        /\ resting_periods = [i \in 1..result.a |->
                                [elevator_id |-> i, floor |-> 0, ended |-> FALSE]]
        /\ elevators = [i \in 1..result.a |->
                          [id |-> i, current_floor |-> 0, status |-> "idle",
                           current_resting_id |-> i, current_journey_id |-> 0]]
        /\ db_elevators = [i \in 1..result.a |->
                             [current_floor |-> 0, status |-> "idle"]]

\* the fleet was created again as the third call of a session
C16_Witness ==
    result.op = "initialize" /\ calls >= 3

\* C17: the fleet always has numElevators elevators with ids 1..numElevators,
\* every floor is in 0..numFloors-1 and every status is one of the three.
C17_FleetShape ==
    /\ Len(elevators) = num_elevators
    /\ \A k \in Positions :
          /\ elevators[k].id = k
          /\ elevators[k].current_floor \in 0..(num_floors - 1)
          /\ elevators[k].status \in {"idle", "moving_up", "moving_down"}

\* an elevator is leaving the top floor while another stands elsewhere
C17_Witness ==
    \E j, k \in Positions :
        /\ elevators[k].current_floor = num_floors - 1
        /\ elevators[k].status = "moving_down"
        /\ elevators[j].current_floor # elevators[k].current_floor

\* The sink calls made by a step: what it appended to the calls of the running
\* call, or all of notified when the step began a new call
NewNotes ==
    IF Len(notified') >= Len(notified)
       /\ SubSeq(notified', 1, Len(notified)) = notified
    THEN SubSeq(notified', Len(notified) + 1, Len(notified'))
    ELSE notified'

\* The close in note names a row of tbl that exists, belongs to the note's
\* elevator, is not closed yet and is the last one opened for that elevator
CloseInOrder(note, tbl) ==
    /\ note.handle \in DOMAIN tbl
    /\ tbl[note.handle].elevator_id = note.elevator_id
    /\ ~tbl[note.handle].ended
    /\ \A r \in DOMAIN tbl :
          tbl[r].elevator_id = note.elevator_id => r <= note.handle

\* C18: every close the sink receives, of a resting period or of a journey,
\* names an interval that was opened before, is the one most recently opened
\* for that elevator, and has not been closed before.
C18_ClosesFollowOpens ==
    [][\A i \in 1..Len(NewNotes) :
          /\ NewNotes[i].op = "end_resting_period"
                => CloseInOrder(NewNotes[i], resting_periods)
          /\ NewNotes[i].op = "end_journey"
                => CloseInOrder(NewNotes[i], journeys)]_vars

\* a second request has returned: its journey and a reopened resting period were closed
C18_Witness ==
    /\ RequestReturned
    /\ requests_done >= 2
    /\ \E i, j \in 1..Len(notified) :
          /\ notified[i].op = "end_resting_period"
          /\ notified[i].handle > num_elevators
          /\ notified[j].op = "end_journey"
          /\ notified[j].handle >= 2

\* No elevator of this snapshot has the id and is idle
NoIdleElevatorWithId(elevs, id) ==
    \A k \in 1..Len(elevs) : elevs[k].id = id => elevs[k].status # "idle"

\* C11 as stated: a reposition naming no elevator of the fleet, or an elevator
\* that is not idle, returns false without raising, whatever the target floor.
C11_UnknownOrBusyReturnsFalse ==
    (result.op = "reposition" /\ NoIdleElevatorWithId(result.pre, result.a))
        => result.kind = "ok" /\ result.flag = FALSE

\* C11 as amended: with a target floor in 0..numFloors-1, a reposition naming
\* no elevator of the fleet, or an elevator that is not idle, returns false
\* without raising; the step that returns false changes no elevator and no
\* sink table and makes no sink call.
C11_UnknownOrBusyInRangeReturnsFalse ==
    /\ [](( /\ result.op = "reposition"
            /\ result.b \in 0..(num_floors - 1)
            /\ NoIdleElevatorWithId(result.pre, result.a))
          => result.kind = "ok" /\ result.flag = FALSE)
    /\ [][( /\ calls' = calls + 1
            /\ result'.op = "reposition"
            /\ result'.kind = "ok"
            /\ result'.flag = FALSE)
          => /\ UNCHANGED <<elevators, sink, call, other>>
             /\ notified' = <<>>]_vars

\* a reposition returned false for an elevator of the fleet that was moving
C11_Witness ==
    /\ result.op = "reposition"
    /\ result.kind = "ok"
    /\ result.flag = FALSE
    /\ \E k \in 1..Len(result.pre) :
          /\ result.pre[k].id = result.a
          /\ result.pre[k].status # "idle"
          /\ result.pre[k].current_floor # result.b

\* C13: a move to the floor the elevator stands at, as the pickup leg, the
\* delivery leg or a reposition, in whatever state the elevator is, takes time
\* 0, changes no elevator and no sink table and makes no sink call.
C13_MoveToSameFloorIsNoOp ==
    [][/\ ( /\ call.pc = "pickup"
            /\ elevators[call.idx].current_floor = call.origin
            /\ other' = other)
          => /\ UNCHANGED <<elevators, sink, notified>>
             /\ call' = [call EXCEPT !.pc = "deliver", !.pickup_time = 0]
       /\ ( /\ call.pc = "deliver"
            /\ elevators[call.idx].current_floor = call.destination
            /\ other' = other)
          => /\ UNCHANGED <<elevators, sink, notified>>
             /\ call' = [call EXCEPT !.pc = "end_journey", !.travel_time = 0]
       /\ ( /\ calls' = calls + 1
            /\ result'.op = "reposition"
            /\ \E k \in Positions :
                  /\ elevators[k].id = result'.a
                  /\ elevators[k].status = "idle"
                  /\ elevators[k].current_floor = result'.b)
          => /\ UNCHANGED <<elevators, sink, call>>
             /\ notified' = <<>>]_vars

\* the pickup leg found the elevator at the origin floor while the other
\* caller's move had it in a moving status: the last sink call before it was
\* this request's start_journey
C13_Witness ==
    /\ call.pc = "deliver"
    /\ call.pickup_time = 0
    /\ elevators[call.idx].status # "idle"
    /\ elevators[call.idx].current_floor = call.origin
    /\ Len(notified) > 0
    /\ notified[Len(notified)].op = "start_journey"

\* The caller with these locals has begun, and not finished, the journey and
\* move steps of a request on the elevator at position k
InFlight(c, k) ==
    /\ c.op = "request"
    /\ c.idx = k
    /\ c.pc \notin {"ready", "start_journey"}

\* C20: also when the requests of two callers interleave, no elevator has the
\* journey and move sequences of two requests in flight at once.
C20_OneSequencePerElevator ==
    \A k \in Positions : ~(InFlight(call, k) /\ InFlight(other, k))

\* An open journey row that no elevator's handle refers to
UnreferencedOpenJourneys ==
    {j \in DOMAIN journeys :
        /\ ~journeys[j].ended
        /\ \A k \in Positions : elevators[k].current_journey_id # j}

\* C12: startJourney on an elevator that already has an open journey fails
\* with an invalid-state error and leaves the open journey handle in place;
\* no journey record is ever left open and unreferenced in the Event Sink.
C12_StartJourneyOnOpenJourneyFails ==
    /\ [](UnreferencedOpenJourneys = {})
    /\ [][\A k \in Positions :
            (/\ result'.op = "start_journey"
             /\ result'.a = k
             /\ calls' = calls + 1
             /\ elevators[k].current_journey_id # 0)
            => /\ result'.kind = "error"
               /\ elevators'[k].current_journey_id = elevators[k].current_journey_id
               /\ journeys' = journeys]_vars

\* C19: when a sink notification fails inside a move or a request, the caller
\* gets the failure and the fleet is left consistent: for every elevator a
\* resting period is open iff it is idle, and no journey handle stays open.
C19_SinkFailureLeavesFleetConsistent ==
    (result.kind = "error" /\ result.error = "sink_failure")
        => \A k \in Positions :
              /\ (elevators[k].current_resting_id # 0) <=> (elevators[k].status = "idle")
              /\ elevators[k].current_journey_id = 0

\* The floor at which the elevator with this id stood in the fleet elevs
FloorOf(elevs, id) ==
    LET k == CHOOSE k \in 1..Len(elevs) : elevs[k].id = id
    IN  elevs[k].current_floor

\* C21: the total time a successful request (o, d) returns is
\* abs(f - o) + abs(o - d), f being the assigned elevator's floor before the
\* call; the pickup leg counts 0 exactly when the elevator stood at o.
C21_TotalTimeIsPickupPlusDelivery ==
    /\ RequestReturned =>
          result.total_time = Abs(FloorOf(result.pre, result.elevator_id) - result.a)
                                + Abs(result.a - result.b)
    /\ (call.op = "request" /\ call.pc \in {"deliver", "deliver_sleep", "end_journey"})
          => /\ call.pickup_time = Abs(call.pre[call.idx].current_floor - call.origin)
             /\ (call.pickup_time = 0)
                   <=> (call.pre[call.idx].current_floor = call.origin)

\* a request returned whose elevator first travelled down to the origin floor
\* and then up to the destination
C21_Witness ==
    /\ RequestReturned
    /\ FloorOf(result.pre, result.elevator_id) > result.a
    /\ result.b > result.a
    /\ result.total_time >= 2

\* C22: each successful request (o, d) records exactly one demand, with the
\* id returned to the caller and a wait of abs(f - o), f being the assigned
\* elevator's floor before it moves; the demand is recorded before the
\* journey is opened and before any move.
C22_OneDemandPerRequestBeforeJourney ==
    /\ call.op = "request" =>
          /\ Len(demands) = requests_done + 1
          /\ demands[Len(demands)] =
                [origin_floor |-> call.origin, destination_floor |-> call.destination,
                 elevator_id |-> call.pre[call.idx].id,
                 wait_time |-> Abs(call.pre[call.idx].current_floor - call.origin)]
          /\ notified[1].op = "record_demand"
    /\ call.pc = "start_journey" =>
          /\ elevators = call.pre
          /\ Len(journeys) = requests_done
          /\ Len(notified) = 1
    /\ RequestReturned =>
          /\ Len(demands) = requests_done
          /\ demands[Len(demands)] =
                [origin_floor |-> result.a, destination_floor |-> result.b,
                 elevator_id |-> result.elevator_id,
                 wait_time |-> Abs(FloorOf(result.pre, result.elevator_id) - result.a)]
          /\ notified[1] = Note("record_demand", result.elevator_id, result.a, "",
                                Len(demands))
          /\ \A i \in 2..Len(notified) : notified[i].op # "record_demand"

\* a second request returned whose demand has a positive wait
C22_Witness ==
    /\ RequestReturned
    /\ requests_done = 2
    /\ demands[2].wait_time > 0
    /\ demands[2].elevator_id = result.elevator_id

\* The sink calls of a request's legs: the notes of zero, one or two moves
LegOps == {"end_resting_period", "update_elevator_status", "start_resting_period"}

\* C23: within one request the assigned elevator's steps occur in this order
\* and no other: journey opened with its pre-move floor as start floor, pickup
\* leg to the origin, delivery leg to the destination, journey closed with
\* the destination as end floor; the journey is never closed before the
\* elevator has reached the destination.
C23_JourneyThenLegsThenClose ==
    /\ [](call.op = "request" /\ call.pc # "start_journey" =>
            LET e == elevators[call.idx]
                j == e.current_journey_id
            IN  /\ j = Len(journeys)
                /\ journeys[j] = [elevator_id |-> e.id,
                                  start_floor |-> call.pre[call.idx].current_floor,
                                  end_floor |-> -1, ended |-> FALSE]
                /\ notified[2].op = "start_journey"
                /\ call.pc = "pickup" => e = [call.pre[call.idx] EXCEPT
                                                 !.current_journey_id = j]
                /\ call.pc = "deliver" => e.current_floor = call.origin
                /\ call.pc = "end_journey" => e.current_floor = call.destination)
    /\ [](RequestReturned =>
            LET j == Len(journeys)
            IN  /\ journeys[j] = [elevator_id |-> result.elevator_id,
                                  start_floor |-> FloorOf(result.pre, result.elevator_id),
                                  end_floor |-> result.b, ended |-> TRUE]
                /\ notified[2].op = "start_journey"
                /\ notified[Len(notified)] =
                      Note("end_journey", result.elevator_id, result.b, "", j)
                /\ \A i \in 3..(Len(notified) - 1) : notified[i].op \in LegOps)
    /\ [][\A j \in DOMAIN journeys :
            (~journeys[j].ended /\ journeys'[j].ended)
                => /\ call.pc = "end_journey"
                   /\ elevators[call.idx].current_journey_id = j
                   /\ elevators[call.idx].current_floor = call.destination
                   /\ elevators[call.idx].status = "idle"]_vars

\* a request with both legs returned: its elevator did not stand at the origin
C23_Witness ==
    /\ RequestReturned
    /\ FloorOf(result.pre, result.elevator_id) # result.a
    /\ journeys[Len(journeys)].ended
    /\ Len(notified) = 11

\* The status a move between two different floors reports while under way
MovingStatus(from, to) == IF to > from THEN "moving_up" ELSE "moving_down"

\* The sink calls of the first half of a move of elevator id from one floor to
\* another, closing the resting period closed
DepartNotes(id, from, to, closed) ==
    <<Note("end_resting_period", id, from, "", closed),
      Note("update_elevator_status", id, from, MovingStatus(from, to), 0)>>

\* The sink calls of a whole move, opening the resting period opened
MoveNotes(id, from, to, closed, opened) ==
    DepartNotes(id, from, to, closed)
        \o <<Note("update_elevator_status", id, to, "idle", 0),
             Note("start_resting_period", id, to, "", opened)>>

\* The elevator of the running call is between the two halves of a move
Asleep == call.pc \in {"pickup_sleep", "deliver_sleep", "resting_sleep"}

\* The floor the elevator of the running call left when its move began
LeftFloor == IF call.pc = "deliver_sleep" THEN call.origin
             ELSE call.pre[call.idx].current_floor

\* C24: a move to a different floor notifies the sink in exactly this order:
\* close of the open resting period, moving status at the old floor, idle
\* status at the target floor, open of a new resting period at the target
\* floor; the floor changes only after the moving status was reported.
C24_MoveNotificationOrder ==
    /\ [](Asleep =>
            LET e == elevators[call.idx]
                n == Len(notified)
            IN  /\ e.current_floor = LeftFloor
                /\ e.current_floor # MoveTarget
                /\ n >= 2
                /\ notified[n - 1].op = "end_resting_period"
                /\ SubSeq(notified, n - 1, n) =
                      DepartNotes(e.id, LeftFloor, MoveTarget, notified[n - 1].handle)
                /\ db_elevators[e.id] = [current_floor |-> LeftFloor,
                                         status |-> MovingStatus(LeftFloor, MoveTarget)])
    /\ [][(Asleep /\ ~Asleep') =>
            LET e == elevators[call.idx]
                n == Len(notified')
            IN  /\ n = Len(notified) + 2
                /\ SubSeq(notified', n - 3, n) =
                      MoveNotes(e.id, LeftFloor, MoveTarget,
                                notified[n - 3].handle, Len(resting_periods'))
                /\ elevators'[call.idx].current_floor = MoveTarget
                /\ ~resting_periods'[Len(resting_periods')].ended
                /\ resting_periods'[notified[n - 3].handle].ended]_vars

\* a reposition from a floor above the ground floor has run both halves of its move
C24_Witness ==
    /\ result.op = "reposition" /\ result.kind = "ok"
    /\ result.elevator_id # 0
    /\ FloorOf(result.pre, result.elevator_id) > 0
    /\ result.b # FloorOf(result.pre, result.elevator_id)
    /\ Len(notified) = 4

\* C25: during a move to a different floor the status is moving_up exactly
\* when the target is above the floor left and moving_down exactly when it is
\* below; the status reported to the sink is the same one.
C25_DirectionMatchesTarget ==
    /\ Asleep =>
          LET e == elevators[call.idx]
          IN  /\ e.status \in {"moving_up", "moving_down"}
              /\ (e.status = "moving_up") <=> (MoveTarget > e.current_floor)
              /\ (e.status = "moving_down") <=> (MoveTarget < e.current_floor)
              /\ db_elevators[e.id].status = e.status
              /\ notified[Len(notified)].status = e.status
    /\ \A k \in Positions :
          elevators[k].status # "idle" => (Asleep /\ call.idx = k)

\* the delivery leg goes up after a pickup leg that went down
C25_Witness ==
    /\ call.pc = "deliver_sleep"
    /\ call.pre[call.idx].current_floor > call.origin
    /\ elevators[call.idx].status = "moving_up"

\* C26: moveToRestingFloor on an elevator that is not idle returns false and
\* changes nothing (floor, status, resting handle, sink); on an idle elevator
\* it returns true exactly when the target floor differs from its floor.
C26_RestingMoveOnlyWhenIdle ==
    /\ [](result.op = "resting" =>
            LET e == result.pre[result.a]
            IN  /\ result.kind = "ok"
                /\ e.status # "idle" => result.flag = FALSE
                /\ e.status = "idle" => (result.flag <=> (result.b # e.current_floor)))
    /\ [][(result'.op = "resting" /\ calls' = calls + 1
              /\ elevators[result'.a].status # "idle")
            => /\ result'.flag = FALSE
               /\ UNCHANGED <<elevators, sink, notified>>]_vars

\* moveToRestingFloor was called on an elevator while a move of it was asleep
C26_Witness ==
    /\ result.op = "resting"
    /\ result.pre[result.a].status = "moving_up"
    /\ call.pc = "move_sleep"
    /\ call.idx = result.a

\* C27: endJourney on an elevator with no open journey is a no-op (no sink
\* call, no state change); on an elevator with an open journey it closes
\* exactly that journey with the given end floor and clears the handle, so a
\* second endJourney does nothing.
C27_EndJourneyClosesOnceThenNoOp ==
    [][(result'.op = "end_journey" /\ calls' = calls + 1) =>
          LET k == result'.a
              h == elevators[k].current_journey_id
          IN  /\ elevators'[k].current_journey_id = 0
              /\ IF h = 0
                 THEN /\ notified' = <<>>
                      /\ UNCHANGED <<elevators, sink>>
                 ELSE /\ ~journeys[h].ended
                      /\ journeys' = [journeys EXCEPT ![h].ended = TRUE,
                                                      ![h].end_floor = result'.b]
                      /\ elevators' = [elevators EXCEPT ![k].current_journey_id = 0]
                      /\ notified' = <<Note("end_journey", elevators[k].id,
                                            result'.b, "", h)>>
                      /\ UNCHANGED <<db_elevators, demands, resting_periods>>]_vars

\* a journey was started, ended, and endJourney was called once more
C27_Witness ==
    /\ result.op = "end_journey"
    /\ calls = 3
    /\ Len(journeys) = 1
    /\ journeys[1].ended
    /\ result.pre[result.a].current_journey_id = 0
    /\ notified = <<>>

\* C28: with one call at a time, whenever a Control Surface operation begins
\* or has returned every elevator is idle with no journey open; moving
\* statuses occur only inside a call, so the scan of a request reads no
\* moving elevator and selects no busy one.
C28_QuiescentBetweenCalls ==
    LET Free(e) == e.status = "idle" /\ e.current_journey_id = 0
    IN  /\ call.pc = "ready" =>
              \A k \in Positions :
                  Free(elevators[k]) /\ OpenJourneys(elevators[k].id) = {}
        /\ call.op # "none" => \A k \in 1..Len(call.pre) : Free(call.pre[k])
        /\ result.op \in {"request", "reposition"} =>
              \A k \in 1..Len(result.pre) : Free(result.pre[k])
        /\ \A k \in Positions :
              ~Free(elevators[k]) => (call.pc # "ready" /\ call.idx = k)

\* a third call begins on a fleet that two earlier requests have moved
C28_Witness ==
    /\ call.op = "request"
    /\ call.pc = "start_journey"
    /\ requests_done = 2
    /\ \E k \in 1..Len(call.pre) : call.pre[k].current_floor # 0

\* C29: after any completed move, request or reposition, the floor and status
\* last recorded in the sink for each elevator are the elevator's in-memory
\* floor and status.
C29_SinkRowMatchesElevator ==
    ~Asleep =>
        /\ DOMAIN db_elevators = {elevators[k].id : k \in Positions}
        /\ \A k \in Positions :
              db_elevators[elevators[k].id] =
                  [current_floor |-> elevators[k].current_floor,
                   status |-> elevators[k].status]

\* both elevators have been moved, to different floors above the ground floor
C29_Witness ==
    /\ call.pc = "ready"
    /\ num_elevators = 2
    /\ db_elevators[2].current_floor # 0
    /\ db_elevators[1].current_floor # db_elevators[2].current_floor
    /\ db_elevators[1].current_floor # 0

\* The step begins a request with these floors: it is rejected at once or
\* goes on to start_journey
BeginsRequest(o, d) ==
    /\ calls' = calls + 1
    /\ \/ result'.op = "request" /\ result'.a = o /\ result'.b = d
       \/ call'.pc = "start_journey" /\ call'.origin = o /\ call'.destination = d

\* C30: a request with equal floors or a floor out of range is rejected and
\* changes nothing: no elevator's floor, status or handles, and no demand,
\* journey, status or resting-period notification reaches the sink.
C30_RejectedRequestChangesNothing ==
    [][\A o \in FloorInputs, d \in FloorInputs :
          (BeginsRequest(o, d) /\ ~InRangeDistinct(o, d, num_floors))
              => /\ result'.kind = "error"
                 /\ notified' = <<>>
                 /\ UNCHANGED <<elevators, sink, call, requests_done,
                                num_elevators, num_floors>>]_vars

\* a request with equal floors was rejected while an elevator stood at that floor
C30_Witness ==
    /\ result.op = "request" /\ result.kind = "error"
    /\ result.a = result.b
    /\ result.error = "same_floor"
    /\ \E k \in Positions : elevators[k].current_floor = result.a /\ result.a > 0

\* C31: a successful request or reposition changes only the elevator it acts
\* on: every other elevator's floor, status, resting handle and journey
\* handle, and its row in the sink, are as before the call, and no sink call
\* of the operation carries another elevator's id. The same holds at every
\* step while the operation runs.
C31_OnlyActedElevatorChanges ==
    LET Untouched(pre, id) ==
            /\ Len(pre) = Len(elevators)
            /\ \A k \in Positions :
                  elevators[k].id # id =>
                      /\ elevators[k] = pre[k]
                      /\ db_elevators[elevators[k].id] =
                            [current_floor |-> pre[k].current_floor,
                             status |-> pre[k].status]
                      /\ ~resting_periods[pre[k].current_resting_id].ended
            /\ \A i \in 1..Len(notified) : notified[i].elevator_id = id
    IN  /\ (result.op \in {"request", "reposition"} /\ result.kind = "ok")
              => Untouched(result.pre, result.elevator_id)
        /\ call.op \in {"request", "reposition"}
              => Untouched(call.pre, call.pre[call.idx].id)

\* a request returned for one elevator while the other stood, as before the
\* call, at a floor an earlier call had moved it to
C31_Witness ==
    /\ RequestReturned
    /\ num_elevators = 2
    /\ \E k \in Positions :
          /\ elevators[k].id # result.elevator_id
          /\ elevators[k].current_floor # 0
          /\ elevators[k] = result.pre[k]
    /\ FloorOf(result.pre, result.elevator_id) # result.b

====
